---- MODULE Spec2Model ----
(***************************************************************************)
(* Model of src/src/terrarium_featureset.ipp: the terrarium height decoder, *)
(* the two-light hillshade pixel pipeline and the single-shot featureset.  *)
(*                                                                         *)
(* Numbers.  A C++ double is modelled in fixed point: an integer counting  *)
(* units of 1/SCALE.  Heights and their differences are integer-valued in  *)
(* the code (see height_val) and are kept as plain integers.  An angle is  *)
(* kept as the point [c, s] = SCALE * (cos, sin) of the unit circle, so    *)
(* atan, atan2, sin, cos and angle subtraction are exact up to the fixed-  *)
(* point rounding and every intermediate value fits 32 bits.               *)
(*                                                                         *)
(* A uint32_t packed pixel exceeds TLC's 32-bit signed integers; it is kept *)
(* as its two 16-bit halves [lo, hi], value = hi * 65536 + lo.             *)
(***************************************************************************)
EXTENDS Integers, Sequences, FiniteSets

\* ------------------------------------------------------------- bounds
\* Side of the output raster (512 in the source); the input tile has
\* OutSize + 2 * Margin pixels a side (516 in the source).
OutSize == 3
\* Largest row/column stride of the generated input tiles.
MaxStride == 2
\* Number of next() calls made on one featureset.
MaxCalls == 3

\* ------------------------------------------------- program constants
Margin == 2
HeightOffset == 32768
AlphaBase == 20
AlphaRange == 100
Azimuth1 == 315
Azimuth2 == 225
Elevation1 == 45
Elevation2 == 45
FirstFeatureId == 1

InSize == OutSize + 2 * Margin
SCALE == 100 * 100

\* ------------------------------------------------------------- state
VARIABLES
    tile,            \* the 516x516 image the tile source holds
    ctor,            \* per featureset: the constructor's arguments
    extent_, bbox_, filter_factor_, feature_id_, done,   \* the members
    ret,             \* per featureset: what the latest next() returned
    calls,           \* per featureset: number of next() calls made
    reads,           \* per featureset: number of image_reader_->read calls
    read_result,     \* per featureset: what the read of the first call did
    escaped,         \* per featureset: an exception left next()
    log,             \* per featureset: the messages logged
    hs_row, hs_col, hs_buf, hs_output, locals, set_rows, loop,   \* process_hillshade, stepwise
    pixel_in, hgt_out, alpha_out, pixel_stage,       \* one pixel decoded
    color1_in, color2_in, color3_out, blend_stage    \* one blend

fs_vars == <<ctor, extent_, bbox_, filter_factor_, feature_id_, done, ret, calls,
             reads, read_result, escaped, log>>
loop_vars == <<hs_row, hs_col, hs_buf, hs_output, locals, set_rows, loop>>
pixel_vars == <<pixel_in, hgt_out, alpha_out, pixel_stage>>
blend_vars == <<color1_in, color2_in, color3_out, blend_stage>>
vars == <<tile, fs_vars, loop_vars, pixel_vars, blend_vars>>

\* ------------------------------------------------------- arithmetic
Abs(x) == IF x < 0 THEN -x ELSE x
Max(x, y) == IF x < y THEN y ELSE x
Min(x, y) == IF x < y THEN x ELSE y

RECURSIVE IsqrtBetween(_, _, _)
IsqrtBetween(n, lo, hi) ==
    IF lo >= hi THEN lo
    ELSE LET mid == (lo + hi + 1) \div 2
         IN  IF mid * mid <= n THEN IsqrtBetween(n, mid, hi)
                               ELSE IsqrtBetween(n, lo, mid - 1)

\* floor(sqrt(n)) for 0 <= n < 2^31
Isqrt(n) == IsqrtBetween(n, 0, 46340)

\* sqrt of a fixed-point value, as a fixed-point value
Sqrt(x) == Isqrt(x * SCALE)

\* conversion of a non-negative integer to uint8_t
U8(x) == x % 256

\* conversion of a non-negative double to uint8_t: the fraction is dropped
U8OfDouble(x) == (x \div SCALE) % 256

\* ------------------------------------------------------------ angles
Angle(c, s) == [c |-> c, s |-> s]

ZeroAngle == Angle(SCALE, 0)
HalfPi == Angle(0, SCALE)
MinusPi == Angle(-SCALE, 0)

\* cos(45 degrees) = sin(45 degrees)
Sqrt1_2 == Isqrt((SCALE * SCALE) \div 2)

\* deg * M_PI / 180 for the multiples of 45 degrees the source uses
Radians(deg) ==
    CASE deg = 45  -> Angle(Sqrt1_2, Sqrt1_2)
      [] deg = 135 -> Angle(-Sqrt1_2, Sqrt1_2)
      [] deg = 225 -> Angle(-Sqrt1_2, -Sqrt1_2)

\* a - b
AngleSub(a, b) ==
    Angle((a.c * b.c + a.s * b.s) \div SCALE, (a.s * b.c - a.c * b.s) \div SCALE)

Cos(a) == a.c
Sin(a) == a.s

\* sqrt(pow(x,2) + pow(y,2)) of two integers, fixed point
Hypot(x, y) ==
    LET m == Max(Abs(x), Abs(y))
        n == Min(Abs(x), Abs(y))
    IN  IF m = 0 THEN 0
        ELSE LET r == (n * SCALE) \div m
             IN  m * Isqrt(SCALE * SCALE + r * r)

\* atan(t), t >= 0 fixed point
Atan(t) ==
    IF t <= SCALE
    THEN LET d == Isqrt(SCALE * SCALE + t * t)
         IN  Angle((SCALE * SCALE) \div d, (t * SCALE) \div d)
    ELSE LET u == (SCALE * SCALE) \div t
             d == Isqrt(SCALE * SCALE + u * u)
         IN  Angle((u * SCALE) \div d, (SCALE * SCALE) \div d)

\* atan2(-dy, -dx) of two integer differences dy, dx.  A difference of two
\* equal doubles is +0.0 and its negation is -0.0; atan2(-0.0, -0.0) and
\* atan2(-0.0, x) with x < 0 are -pi (IEEE 754 / C Annex F).
Atan2Neg(dy, dx) ==
    LET y == -dy
        x == -dx
        m == Max(Abs(x), Abs(y))
    IN  IF m = 0 THEN MinusPi
        ELSE LET xr == (x * SCALE) \div m
                 yr == (y * SCALE) \div m
                 h  == Isqrt(xr * xr + yr * yr)
             IN  Angle((xr * SCALE) \div h, (yr * SCALE) \div h)

\* ------------------------------------------------------------ pixels
Bytes == 0 .. 255

\* the uint32_t  a<<24 | b<<16 | g<<8 | r
Pack(r, g, b, a) == [lo |-> g * 256 + r, hi |-> a * 256 + b]

height_val(pixel) ==
    LET red   == pixel.lo % 256
        green == (pixel.lo \div 256) % 256
        blue  == pixel.hi % 256
    IN  (red * 256 + green + blue \div 256) - HeightOffset

pxl_from_rgba(r, g, b, a) == Pack(r, g, b, a)

\* mapnik::color{r, g, b}: alpha defaults to 255
Color(r, g, b) == [red |-> r, green |-> g, blue |-> b, alpha |-> 255]

bytes(c) == Pack(c.red, c.green, c.blue, c.alpha)

\* the storage index with a margin of one pixel
get_height_index_narrow(row, col) == <<row + 1, col + 1>>

\* storage index read by get_height(input, row, col)
get_height_index(row, col) == <<row + Margin, col + Margin>>

get_height(input, row, col) ==
    LET at == get_height_index(row, col)
    IN  height_val(input[at[1]][at[2]])

\* ---------------------------------------------------------- hillshade
\* the (row, col) arguments of the five get_height calls of one pixel
stencil(row, col) ==
    [hgt   |-> <<row, col>>,
     east  |-> <<row, col + 1>>,
     west  |-> <<row, col - 1>>,
     south |-> <<row + 1, col>>,
     north |-> <<row - 1, col>>]

height_at(input, rc) == get_height(input, rc[1], rc[2])

dzdx_of(input, row, col) ==
    height_at(input, stencil(row, col).east) - height_at(input, stencil(row, col).west)

dzdy_of(input, row, col) ==
    height_at(input, stencil(row, col).south) - height_at(input, stencil(row, col).north)

\* atan(0.2 * sqrt(pow(dzdx,2) + pow(dzdy,2)))
slope_of(dzdx, dzdy) == Atan(Hypot(dzdx, dzdy) \div 5)

\* atan2(-dzdy, -dzdx)
aspect_of(dzdx, dzdy) == Atan2Neg(dzdy, dzdx)

\* the luminance without the cos(slope) * cos(M_PI * .5 - elev) term
luminance_of_unlit(aspect, slope, azimuth, elevation) ==
    LET elev == Radians(elevation)
        a    == AngleSub(AngleSub(HalfPi, aspect), Radians(azimuth - 90))
        lum  == (((Cos(a) * Sin(slope)) \div SCALE) * Sin(AngleSub(HalfPi, elev))) \div SCALE
        pos  == IF lum < 0 THEN 0 ELSE lum
    IN  Sqrt((pos * 8) \div 10 + (2 * SCALE) \div 10) * 255

\* luminance of one light, after the clamp, the gamma lift and the * 255
luminance_of(aspect, slope, azimuth, elevation) ==
    LET elev == Radians(elevation)
        a    == AngleSub(AngleSub(HalfPi, aspect), Radians(azimuth - 90))
        lum  == (((Cos(a) * Sin(slope)) \div SCALE) * Sin(AngleSub(HalfPi, elev))) \div SCALE
                + (Cos(slope) * Cos(AngleSub(HalfPi, elev))) \div SCALE
        pos  == IF lum < 0 THEN 0 ELSE lum
    IN  Sqrt((pos * 8) \div 10 + (2 * SCALE) \div 10) * 255

\* the warm tint with an undivided green channel
tint1_full_green(luminance1) == Color(U8OfDouble(luminance1), U8OfDouble(luminance1), 0)

\* mapnik::color color1{(uint8_t)luminance1, (uint8_t)(luminance1/2), 0}
tint1(luminance1) == Color(U8OfDouble(luminance1), U8OfDouble(luminance1 \div 2), 0)

\* mapnik::color color2{0, (uint8_t)(luminance2/2), (uint8_t)luminance2}
tint2(luminance2) == Color(0, U8OfDouble(luminance2 \div 2), U8OfDouble(luminance2))

\* the blend with channel sums saturating at 255
blend_saturating(color1, color2) ==
    Color(Min(color1.red + color2.red, 255), Min(color1.green + color2.green, 255),
          Min(color1.blue + color2.blue, 255))

blend(color1, color2) ==
    LET red   == U8(color1.red + color2.red)
        green == U8(color1.green + color2.green)
        blue  == U8(color1.blue + color2.blue)
    IN  Color(red, green, blue)

\* the alpha rounded to the nearest integer instead of cut
alpha_of_rounded(hgt) ==
    LET alpha == (((hgt - AlphaBase) * SCALE) \div AlphaRange) * 255 + SCALE \div 2
        high  == IF alpha > 255 * SCALE THEN 255 * SCALE ELSE alpha
    IN  IF high < 0 THEN 0 ELSE high

\* (hgt - 20) / 100 * 255, clamped to [0, 255]; fixed point
alpha_of(hgt) ==
    LET alpha == (((hgt - AlphaBase) * SCALE) \div AlphaRange) * 255
        high  == IF alpha > 255 * SCALE THEN 255 * SCALE ELSE alpha
    IN  IF high < 0 THEN 0 ELSE high

\* color::set_alpha(std::uint8_t): the double is converted to uint8_t
set_alpha(c, alpha) == [c EXCEPT !.alpha = U8OfDouble(alpha)]

\* the locals of one iteration of the inner loop of process_hillshade
hillshade_locals(input, row, col) ==
    LET hgt    == height_at(input, stencil(row, col).hgt)
        dzdx   == dzdx_of(input, row, col)
        dzdy   == dzdy_of(input, row, col)
        slope  == slope_of(dzdx, dzdy)
        aspect == aspect_of(dzdx, dzdy)
        luminance1 == luminance_of(aspect, slope, Azimuth1, Elevation1)
        luminance2 == luminance_of(aspect, slope, Azimuth2, Elevation2)
        color1 == tint1(luminance1)
        color2 == tint2(luminance2)
        color3 == set_alpha(blend(color1, color2), alpha_of(hgt))
        args   == {stencil(row, col)[k] : k \in DOMAIN stencil(row, col)}
    IN  [row |-> row, col |-> col,
         args |-> args,
         reads |-> {get_height_index(rc[1], rc[2]) : rc \in args},
         hgt |-> hgt, dzdx |-> dzdx, dzdy |-> dzdy, slope |-> slope, aspect |-> aspect,
         luminance1 |-> luminance1, luminance2 |-> luminance2,
         color1 |-> color1, color2 |-> color2, color3 |-> color3,
         alpha |-> alpha_of(hgt), pixel |-> bytes(color3)]

hillshade_pixel(input, row, col) == hillshade_locals(input, row, col).pixel

\* mapnik::image_rgba8 output(512,512): zero-filled
NewImage(width, height) ==
    [r \in 0 .. height - 1 |-> [c \in 0 .. width - 1 |-> Pack(0, 0, 0, 0)]]

\* image::set_row(row, buf, size): copies size pixels of buf into the row
set_row(image, row, buf, size) ==
    [image EXCEPT ![row] = [c \in 0 .. size - 1 |-> buf[c]]]

\* the inner loop: buf[col] = bytes(color3) for col = 0 .. 511
hillshade_row(input, row) ==
    [col \in 0 .. OutSize - 1 |-> hillshade_pixel(input, row, col)]

RECURSIVE hillshade_rows(_, _, _)
hillshade_rows(input, output, row) ==
    IF row < OutSize
    THEN hillshade_rows(input, set_row(output, row, hillshade_row(input, row), OutSize),
                        row + 1)
    ELSE output

\* a run that starts at row 1 once the tile source has been read before
process_hillshade_stale(input, output) ==
    hillshade_rows(input, output, IF \E f \in DOMAIN reads : reads[f] > 0 THEN 1 ELSE 0)

process_hillshade(input, output) == hillshade_rows(input, output, 0)

\* ------------------------------------------------------ input tiles
\* pixels the generated tiles are made of: the heights 0, 1, 20, 70, 120,
\* the two extremes, and pixels that differ only in blue or alpha
Palette ==
    << Pack(128, 0, 0, 255),   Pack(128, 0, 200, 0),
       Pack(128, 1, 0, 255),   Pack(128, 20, 0, 255),
       Pack(128, 70, 0, 255),  Pack(128, 70, 255, 7),
       Pack(128, 120, 0, 255), Pack(0, 0, 0, 255),
       Pack(255, 255, 255, 255) >>

InCoords == 0 .. InSize - 1

\* the tile whose pixel (r, c) is palette entry
\* first + ((r * dr + c * dc) mod span)
PatternTile(first, dr, dc, span) ==
    [r \in InCoords |-> [c \in InCoords |->
        Palette[((first + ((r * dr + c * dc) % span)) % Len(Palette)) + 1]]]

\* the input tiles of the pixel loop
TileSet ==
    {PatternTile(first, dr, dc, span) :
        first \in 0 .. Len(Palette) - 1, dr \in 0 .. MaxStride, dc \in 0 .. MaxStride,
        span \in {2, Len(Palette)}}

\* the tiles the tile source of the featuresets may hold
ReaderTiles ==
    {PatternTile(first, dr, dc, Len(Palette)) :
        first \in {0, 4}, dr \in 0 .. MaxStride, dc \in 0 .. MaxStride}

\* ------------------------------------------------------- featureset
\* the two featuresets, built over the same tile source
Featuresets == {1, 2}

Box(minx, miny, maxx, maxy) == <<minx, miny, maxx, maxy>>

\* (extent, query) pairs a featureset is constructed with
CtorArgs ==
    { [extent |-> Box(0, 0, 8, 8), q |-> [bbox |-> Box(2, 2, 4, 4), filter_factor |-> 2]],
      [extent |-> Box(-4, -4, 4, 4), q |-> [bbox |-> Box(-4, -4, 4, 4), filter_factor |-> 1]] }

\* the initial value of the member done (declared in terrarium_featureset.hpp)
DoneInitial == FALSE

NoCall == [kind |-> "no call"]
NullFeature == [kind |-> "null"]
NoRaster == [present |-> FALSE]
Feature(id, raster) == [kind |-> "feature", id |-> id, raster |-> raster]

\* what image_reader_->read(0, 0, 516, 516) and the allocations after it do
ReadOutcomes ==
    {"rgba8", "rgba8, then bad_alloc", "gray8", "image_reader_exception",
     "std::exception", "non-std exception"}

\* the raster built with the query's bounding box as its extents
make_raster_bbox(f, image) ==
    [present |-> TRUE, ext |-> bbox_[f], query_ext |-> bbox_[f],
     data |-> image, filter_factor |-> filter_factor_[f]]

\* std::make_shared<mapnik::raster>(extent_, extent_, std::move(output), filter_factor_)
make_raster(f, image) ==
    [present |-> TRUE, ext |-> extent_[f], query_ext |-> extent_[f],
     data |-> image, filter_factor |-> filter_factor_[f]]

\* the try block: the exception it throws ("none": it completes) and the
\* raster it attached to the feature
try_block(f, outcome) ==
    CASE outcome = "image_reader_exception" ->
             [thrown |-> "mapnik::image_reader_exception", raster |-> NoRaster]
      [] outcome = "std::exception" ->
             [thrown |-> "std::runtime_error", raster |-> NoRaster]
      [] outcome = "non-std exception" ->
             [thrown |-> "int", raster |-> NoRaster]
      [] outcome = "rgba8, then bad_alloc" ->
             [thrown |-> "std::bad_alloc", raster |-> NoRaster]
      [] outcome = "gray8" ->
             [thrown |-> "mapnik::util::bad_variant_access", raster |-> NoRaster]
      [] outcome = "rgba8" ->
             [thrown |-> "none",
              raster |-> make_raster(f, process_hillshade(tile, NewImage(OutSize, OutSize)))]

\* the classes derived from std::exception among the thrown types
StdExceptions ==
    {"mapnik::image_reader_exception", "std::runtime_error", "std::bad_alloc",
     "mapnik::util::bad_variant_access"}

\* next() without its catch (...) clause
CatchClausesTyped == <<"mapnik::image_reader_exception", "std::exception">>

\* the catch clauses of next(), in order
CatchClauses == <<"mapnik::image_reader_exception", "std::exception", "...">>

Catches(clause, thrown) ==
    CASE clause = "..." -> TRUE
      [] clause = "std::exception" -> thrown \in StdExceptions
      [] OTHER -> clause = thrown

\* index of the first clause that catches thrown; 0: none does
catch_clause(thrown) ==
    LET hits == {i \in DOMAIN CatchClauses : Catches(CatchClauses[i], thrown)}
    IN  IF hits = {} THEN 0 ELSE CHOOSE i \in hits : \A j \in hits : i <= j

\* the text MAPNIK_LOG_ERROR writes in each clause
log_message(clause) ==
    CASE clause = 1 -> "Terrarium: image reader exception caught: "
      [] clause = 2 -> "Terrarium: "
      [] clause = 3 -> "Terrarium: exception caught"

\* terrarium_featureset::terrarium_featureset for every featureset
InitFeaturesets ==
    /\ ctor \in [Featuresets -> CtorArgs]
    /\ extent_ = [f \in Featuresets |-> ctor[f].extent]
    /\ bbox_ = [f \in Featuresets |-> ctor[f].q.bbox]
    /\ filter_factor_ = [f \in Featuresets |-> ctor[f].q.filter_factor]
    /\ feature_id_ = [f \in Featuresets |-> FirstFeatureId]
    /\ done = [f \in Featuresets |-> DoneInitial]
    /\ ret = [f \in Featuresets |-> NoCall]
    /\ calls = [f \in Featuresets |-> 0]
    /\ reads = [f \in Featuresets |-> 0]
    /\ read_result = [f \in Featuresets |-> "none"]
    /\ escaped = [f \in Featuresets |-> FALSE]
    /\ log = [f \in Featuresets |-> <<>>]

\* next() without its early return
is_done_ignored(f) == FALSE

\* if (done) return feature_ptr();
is_done(f) == done[f]

\* terrarium_featureset::next() on featureset f
next(f, outcome) ==
    /\ calls[f] < MaxCalls
    /\ ~escaped[f]
    /\ calls' = [calls EXCEPT ![f] = @ + 1]
    /\ IF is_done(f)
       THEN /\ ret' = [ret EXCEPT ![f] = NullFeature]
            /\ UNCHANGED <<feature_id_, done, reads, read_result, escaped, log>>
       ELSE LET feature == Feature(feature_id_[f], NoRaster)
                body    == try_block(f, outcome)
                clause  == catch_clause(body.thrown)
            IN  /\ feature_id_' = [feature_id_ EXCEPT ![f] = @ + 1]
                /\ reads' = [reads EXCEPT ![f] = @ + 1]
                /\ read_result' = [read_result EXCEPT ![f] = outcome]
                /\ IF body.thrown = "none"
                   THEN /\ ret' = [ret EXCEPT ![f] = [feature EXCEPT !.raster = body.raster]]
                        /\ done' = [done EXCEPT ![f] = TRUE]
                        /\ UNCHANGED <<escaped, log>>
                   ELSE IF clause = 0
                   THEN /\ escaped' = [escaped EXCEPT ![f] = TRUE]
                        /\ UNCHANGED <<ret, done, log>>
                   ELSE /\ log' = [log EXCEPT ![f] = Append(@, log_message(clause))]
                        /\ ret' = [ret EXCEPT ![f] = feature]
                        /\ done' = [done EXCEPT ![f] = TRUE]
                        /\ UNCHANGED escaped
    /\ UNCHANGED <<tile, ctor, extent_, bbox_, filter_factor_>>
    /\ UNCHANGED <<loop_vars, pixel_vars, blend_vars>>

\* -------------------------------------------- process_hillshade, stepwise
Uninitialized == [lo |-> -1, hi |-> -1]

\* new uint32_t[512]
NewBuf == [c \in 0 .. OutSize - 1 |-> Uninitialized]

NoLocals == [row |-> -1, col |-> -1, args |-> {}, reads |-> {}]

InitLoop ==
    /\ hs_row = 0
    /\ hs_col = 0
    /\ hs_buf = NewBuf
    /\ hs_output = NewImage(OutSize, OutSize)
    /\ locals = NoLocals
    /\ set_rows = [r \in 0 .. OutSize - 1 |-> 0]
    /\ loop = "running"

IdleLoop ==
    /\ hs_row = 0
    /\ hs_col = 0
    /\ hs_buf = <<>>
    /\ hs_output = <<>>
    /\ locals = NoLocals
    /\ set_rows = <<>>
    /\ loop = "idle"

\* one iteration of the inner loop
PixelStep ==
    /\ loop = "running"
    /\ hs_row < OutSize
    /\ hs_col < OutSize
    /\ locals' = hillshade_locals(tile, hs_row, hs_col)
    /\ hs_buf' = [hs_buf EXCEPT ![hs_col] = locals'.pixel]
    /\ hs_col' = hs_col + 1
    /\ UNCHANGED <<hs_row, hs_output, set_rows, loop>>
    /\ UNCHANGED <<tile, fs_vars, pixel_vars, blend_vars>>

\* the end of the inner loop: output.set_row(row, buf, 512), next row
RowStep ==
    /\ loop = "running"
    /\ hs_row < OutSize
    /\ hs_col = OutSize
    /\ hs_output' = set_row(hs_output, hs_row, hs_buf, OutSize)
    /\ set_rows' = [set_rows EXCEPT ![hs_row] = @ + 1]
    /\ hs_row' = hs_row + 1
    /\ hs_col' = 0
    /\ hs_buf' = NewBuf
    /\ loop' = IF hs_row + 1 < OutSize THEN "running" ELSE "returned"
    /\ UNCHANGED locals
    /\ UNCHANGED <<tile, fs_vars, pixel_vars, blend_vars>>

\* ------------------------------------------------ pure functions alone
RedSamples == {0, 127, 128, 255}
GreenSamples == {0, 19, 20, 21, 69, 70, 71, 119, 120, 121, 255}
BlueSamples == {0, 1, 128, 255}
AlphaSamples == {0, 255}

PixelSamples ==
    {Pack(r, g, b, a) :
        r \in RedSamples, g \in GreenSamples, b \in BlueSamples, a \in AlphaSamples}

InitPixel ==
    /\ pixel_in \in PixelSamples
    /\ hgt_out = 0
    /\ alpha_out = 0
    /\ pixel_stage = "input"

IdlePixel ==
    /\ pixel_in = Pack(0, 0, 0, 0)
    /\ hgt_out = 0
    /\ alpha_out = 0
    /\ pixel_stage = "idle"

\* hgt = height_val(pixel), then the alpha byte set_alpha stores for it
DecodePixel ==
    /\ pixel_stage = "input"
    /\ hgt_out' = height_val(pixel_in)
    /\ alpha_out' = set_alpha(Color(0, 0, 0), alpha_of(height_val(pixel_in))).alpha
    /\ pixel_stage' = "decoded"
    /\ UNCHANGED pixel_in
    /\ UNCHANGED <<tile, fs_vars, loop_vars, blend_vars>>

ChannelSamples == {0, 1, 127, 128, 255}

ColorSamples ==
    {Color(r, g, b) : r \in ChannelSamples, g \in ChannelSamples, b \in ChannelSamples}

InitBlend ==
    /\ color1_in \in ColorSamples
    /\ color2_in \in ColorSamples
    /\ color3_out = Color(0, 0, 0)
    /\ blend_stage = "input"

IdleBlend ==
    /\ color1_in = Color(0, 0, 0)
    /\ color2_in = Color(0, 0, 0)
    /\ color3_out = Color(0, 0, 0)
    /\ blend_stage = "idle"

Blend ==
    /\ blend_stage = "input"
    /\ color3_out' = blend(color1_in, color2_in)
    /\ blend_stage' = "blended"
    /\ UNCHANGED <<color1_in, color2_in>>
    /\ UNCHANGED <<tile, fs_vars, loop_vars, pixel_vars>>

\* --------------------------------------------------- specifications
\* two featuresets over one tile source, next() called on either
Init ==
    /\ tile \in ReaderTiles
    /\ InitFeaturesets
    /\ IdleLoop /\ IdlePixel /\ IdleBlend

Next == \E f \in Featuresets : \E outcome \in ReadOutcomes : next(f, outcome)

Spec == Init /\ [][Next]_vars

IdleFeaturesets ==
    /\ ctor = <<>> /\ extent_ = <<>> /\ bbox_ = <<>> /\ filter_factor_ = <<>>
    /\ feature_id_ = <<>> /\ done = <<>> /\ ret = <<>> /\ calls = <<>>
    /\ reads = <<>> /\ read_result = <<>> /\ escaped = <<>> /\ log = <<>>

\* process_hillshade run pixel by pixel over one input tile
InitHillshade ==
    /\ tile \in TileSet
    /\ IdleFeaturesets
    /\ InitLoop /\ IdlePixel /\ IdleBlend

NextHillshade == PixelStep \/ RowStep

SpecHillshade == InitHillshade /\ [][NextHillshade]_vars

\* height_val and the alpha ramp on one pixel
InitDecode ==
    /\ tile = <<>>
    /\ IdleFeaturesets
    /\ IdleLoop /\ InitPixel /\ IdleBlend

NextDecode == DecodePixel

SpecDecode == InitDecode /\ [][NextDecode]_vars

\* blend on two colors
InitBlendOnly ==
    /\ tile = <<>>
    /\ IdleFeaturesets
    /\ IdleLoop /\ IdlePixel /\ InitBlend

NextBlend == Blend

SpecBlend == InitBlendOnly /\ [][NextBlend]_vars

\* ============================================================ claims
HasRaster(f) == ret[f].kind = "feature" /\ ret[f].raster.present

\* C1: single-shot iteration.  Every call of next() leaves the featureset
\* done, a done featureset stays done, and every call after the first
\* returns the empty feature pointer and makes no read of the tile source,
\* whatever the read of the first call did.
C1_SingleShot ==
    [][\A f \in Featuresets :
         /\ done[f] => done'[f]
         /\ calls'[f] = calls[f] + 1 =>
              /\ done'[f]
              /\ calls[f] >= 1 =>
                   /\ ret'[f] = NullFeature
                   /\ reads'[f] = reads[f]
                   /\ feature_id_'[f] = feature_id_[f]]_vars

\* C1 witness: a third call answered with the empty pointer after a first
\* call whose read threw, next to a featureset whose first call succeeded.
C1_Witness ==
    \E f, g \in Featuresets :
        /\ calls[f] = 3 /\ ret[f] = NullFeature /\ reads[f] = 1
        /\ read_result[f] = "image_reader_exception"
        /\ calls[g] >= 2 /\ ret[g] = NullFeature /\ read_result[g] = "rgba8"

\* C2: failure propagation.  When the read of the first call throws, or
\* returns an image that is not rgba8, or anything else throws in the try
\* block, no exception leaves next(), the featureset is done right after
\* that call and the feature it returned has no raster.
C2_FailurePropagation ==
    \A f \in Featuresets :
        (calls[f] >= 1 /\ read_result[f] # "rgba8") =>
            /\ ~escaped[f]
            /\ done[f]
            /\ Len(log[f]) = 1
            /\ calls[f] = 1 => ret[f] = Feature(FirstFeatureId, NoRaster)

\* C2 witness: first calls that failed in the image type and with an
\* exception not derived from std::exception.
C2_Witness ==
    \E f, g \in Featuresets :
        /\ calls[f] = 1 /\ read_result[f] = "non-std exception"
        /\ ret[f] = Feature(FirstFeatureId, NoRaster) /\ done[f]
        /\ calls[g] = 1 /\ read_result[g] = "gray8"
        /\ ret[g] = Feature(FirstFeatureId, NoRaster) /\ done[g]

RedOf(pixel) == pixel.lo % 256
GreenOf(pixel) == pixel.lo \div 256
BlueOf(pixel) == pixel.hi % 256

\* C3: height decoding.  The decoded height is
\* red * 256 + green + blue / 256 - 32768 with blue / 256 the fractional
\* part; stated on 256 times the height to stay in the integers.
C3_HeightDecoding ==
    pixel_stage = "decoded" =>
        256 * hgt_out =
            256 * (RedOf(pixel_in) * 256 + GreenOf(pixel_in) - 32768) + BlueOf(pixel_in)

\* C4 as claimed: the alpha byte is 0 up to height 20, 255 from height 120
\* on, and 128 at height 70.
C4_AlphaRampRounded ==
    pixel_stage = "decoded" =>
        /\ hgt_out <= 20 => alpha_out = 0
        /\ hgt_out >= 120 => alpha_out = 255
        /\ hgt_out = 70 => alpha_out = 128

\* C4, amended: the alpha byte is clamp((h - 20) / 100 * 255, 0, 255) with
\* its fraction cut off: 0 up to height 20, 255 from height 120 on,
\* floor((h - 20) * 255 / 100) in between, so 127 at height 70.
C4_AlphaRamp ==
    pixel_stage = "decoded" =>
        /\ hgt_out <= 20 => alpha_out = 0
        /\ hgt_out >= 120 => alpha_out = 255
        /\ (20 < hgt_out /\ hgt_out < 120) =>
               alpha_out = ((hgt_out - 20) * 255) \div 100
        /\ hgt_out = 70 => alpha_out = 127

\* C4 witness: a pixel of height 70 decoded, its alpha byte 127.
C4_Witness ==
    /\ pixel_stage = "decoded"
    /\ hgt_out = 70
    /\ alpha_out = 127

\* C6: blend arithmetic.  Each channel of blend(c1, c2) is the sum of the
\* two channels modulo 256: the sum when it is at most 255, the sum less
\* 256 when it overflows, and never the sum saturated to 255.
C6_BlendWraps ==
    blend_stage = "blended" =>
        \A ch \in {"red", "green", "blue"} :
            LET sum == color1_in[ch] + color2_in[ch]
            IN  /\ sum <= 255 => color3_out[ch] = sum
                /\ sum > 255 => color3_out[ch] = sum - 256 /\ color3_out[ch] # 255

\* C6 witness: a blend whose red sum overflows and whose blue sum does not.
C6_Witness ==
    /\ blend_stage = "blended"
    /\ color1_in.red + color2_in.red > 255
    /\ color3_out.red = color1_in.red + color2_in.red - 256
    /\ color1_in.blue + color2_in.blue = 255
    /\ color3_out.blue = 255

\* -------------------------------------------- claims on the pixel loop
\* every input pixel, margin included, decodes to the same height
FlatTile ==
    \A r1, r2, c1, c2 \in InCoords :
        height_val(tile[r1][c1]) = height_val(tile[r2][c2])

PixelDone == locals.row >= 0

\* sqrt(0.2) * 255, fixed point
LuminanceUnlit == Sqrt((2 * SCALE) \div 10) * 255

\* sqrt(0.8 * cos(pi / 4) + 0.2) * 255 = 223.1338, fixed point
LuminanceFlat == 223 * SCALE + (1338 * SCALE) \div 10000

\* one tenth of a luminance unit: the fixed-point error allowed
LuminanceTolerance == SCALE \div 10

\* C5 as claimed: on a flat tile dzdx = dzdy = 0, slope = 0, aspect = 0
\* and both luminances are sqrt(0.2) * 255.
C5_FlatLuminanceUnlit ==
    (FlatTile /\ PixelDone) =>
        /\ locals.dzdx = 0 /\ locals.dzdy = 0
        /\ locals.slope = ZeroAngle
        /\ locals.aspect = ZeroAngle
        /\ Abs(locals.luminance1 - LuminanceUnlit) <= LuminanceTolerance
        /\ Abs(locals.luminance2 - LuminanceUnlit) <= LuminanceTolerance

\* C5, amended: on a flat tile, at every output coordinate,
\* dzdx = dzdy = 0 and slope = 0; aspect is atan2(-0.0, -0.0) = -pi; both
\* luminances are equal, sqrt(0.8 * cos(pi / 4) + 0.2) * 255 = 223.13,
\* and both luminance bytes are 223.
C5_FlatLuminance ==
    (FlatTile /\ PixelDone) =>
        /\ locals.dzdx = 0 /\ locals.dzdy = 0
        /\ locals.slope = ZeroAngle
        /\ locals.aspect = MinusPi
        /\ locals.luminance1 = locals.luminance2
        /\ Abs(locals.luminance1 - LuminanceFlat) <= LuminanceTolerance
        /\ locals.color1.red = 223 /\ locals.color2.blue = 223

\* C5 witness: the last pixel of a flat tile whose pixels are not all the
\* same packed value.
C5_Witness ==
    /\ FlatTile
    /\ locals.row = OutSize - 1 /\ locals.col = OutSize - 1
    /\ tile[0][0] # tile[0][1]
    /\ locals.dzdx = 0 /\ locals.color1.red = 223

\* C9: the stencil stays inside the tile.  Every get_height call of a pixel
\* has logical coordinates in [-1, OutSize] and reads storage index
\* (row + 2, col + 2) in [1, OutSize + 2], inside the tile; the centre
\* sample of output pixel (row, col) is input pixel (row + 2, col + 2);
\* each output row is set once, after its OutSize pixels were written.
C9_StencilInside ==
    /\ PixelDone =>
         /\ \A rc \in locals.args :
                rc[1] \in -1 .. OutSize /\ rc[2] \in -1 .. OutSize
         /\ \A at \in locals.reads :
                /\ at[1] \in 1 .. OutSize + 2 /\ at[2] \in 1 .. OutSize + 2
                /\ at[1] \in InCoords /\ at[2] \in InCoords
         /\ locals.reads = {<<rc[1] + 2, rc[2] + 2>> : rc \in locals.args}
         /\ <<locals.row + 2, locals.col + 2>> \in locals.reads
         /\ Cardinality(locals.reads) = 5
         /\ locals.hgt = height_val(tile[locals.row + 2][locals.col + 2])
    /\ loop # "idle" =>
         \A r \in 0 .. OutSize - 1 :
             /\ set_rows[r] = IF r < hs_row THEN 1 ELSE 0
             /\ r < hs_row =>
                  /\ DOMAIN hs_output[r] = 0 .. OutSize - 1
                  /\ \A c \in 0 .. OutSize - 1 :
                         hs_output[r][c] = hillshade_pixel(tile, r, c)

\* C9 witness: the run returned, its last pixel read storage row
\* OutSize + 2 and column 1 was read for a pixel of column 0.
C9_Witness ==
    /\ loop = "returned"
    /\ locals.row = OutSize - 1 /\ locals.col = OutSize - 1
    /\ <<OutSize + 2, OutSize + 1>> \in locals.reads
    /\ <<OutSize + 1, OutSize + 2>> \in locals.reads
    /\ \A r \in 0 .. OutSize - 1 : set_rows[r] = 1

\* C10: no wraparound in the pipeline.  With L1 and L2 the luminance bytes
\* of a pixel, the tints are (L1, floor(L1/2), 0) and (0, floor(L2/2), L2),
\* every channel sum is at most 255 (green at most 254) and the blended
\* colour is the exact sum.
C10_NoWraparound ==
    PixelDone =>
        LET L1 == locals.luminance1 \div SCALE
            L2 == locals.luminance2 \div SCALE
        IN  /\ L1 \in 0 .. 255 /\ L2 \in 0 .. 255
            /\ locals.color1 = Color(L1, L1 \div 2, 0)
            /\ locals.color2 = Color(0, L2 \div 2, L2)
            /\ locals.color1.green + locals.color2.green <= 254
            /\ locals.color1.red + locals.color2.red <= 255
            /\ locals.color1.blue + locals.color2.blue <= 255
            /\ locals.color3.red = locals.color1.red + locals.color2.red
            /\ locals.color3.green = locals.color1.green + locals.color2.green
            /\ locals.color3.blue = locals.color1.blue + locals.color2.blue

\* C10 witness: a pixel on a slope, both lights bright, whose red and blue
\* together exceed 255 and whose two luminance bytes differ.
C10_Witness ==
    /\ PixelDone
    /\ locals.dzdx # 0
    /\ locals.color1.red # locals.color2.blue
    /\ locals.color1.red + locals.color2.blue > 255
    /\ locals.color3.green = locals.color1.green + locals.color2.green
    /\ locals.color3.green > 200

====
